---- MODULE Spec2Model ----
(***************************************************************************)
(* A model of rsa/cli.py: the command-line front end of python-rsa.        *)
(*                                                                         *)
(* The module models the three console scripts (keygen, encrypt, decrypt)  *)
(* as processes started one after another by a shell over a shared file    *)
(* system.  A process owns its standard streams, its open file handles and *)
(* its local variables; the file system outlives it.  The RSA engine and   *)
(* the PKCS#1 codec (rsa.newkeys, rsa.encrypt, rsa.decrypt, save_pkcs1,    *)
(* load_pkcs1) and optparse are collaborators of cli.py: they are modelled *)
(* by their contracts.                                                     *)
(***************************************************************************)
EXTENDS Integers, Sequences, FiniteSets, TLC

(***************************************************************************)
(* Bounds of the model.                                                    *)
(***************************************************************************)
\* Longest message (in bytes) that a scenario stores in a file or on stdin.
MaxMsgLen == 2

(***************************************************************************)
(* Values.                                                                 *)
(***************************************************************************)
\* Python's None as the value of an option that is absent from argv.
None == "None"
\* Python's None as the value of a local that holds no object yet.
NoneVal == [kind |-> "None"]

\* File names used on the command lines; "" is the empty string, which
\* optparse stores as the option's value when argv holds --opt= .
Paths == {"P", "K", "M", "C", "D"}

Byte == {0, 1}
Messages == UNION {[1..n -> Byte] : n \in 0..MaxMsgLen}

KeyIds == {"k1", "k2"}

\* Contents of files and streams.
Absent == [kind |-> "absent"]
Data(b) == [kind |-> "data", bytes |-> b]
Cipher(id, b) == [kind |-> "cipher", id |-> id, bytes |-> b]
KeyFile(fmt, role, id, bits) ==
    [kind |-> "pkcs1", format |-> fmt, role |-> role, id |-> id, bits |-> bits]
KeyObj(role, id, bits) == [kind |-> "key", role |-> role, id |-> id, bits |-> bits]

\* An exception raised by a call, in place of its result.
Raise(e) == [kind |-> "raise", exc |-> e]
Raised(r) == r.kind = "raise"

(***************************************************************************)
(* The collaborators of cli.py, by their contracts.                        *)
(***************************************************************************)
\* rsa.newkeys(nbits): a fresh key pair of nbits bits.  The pair is random
\* (id); what the engine does with a size that is no bit length (nbits < 1)
\* is not fixed by its contract: it may fail or hand back a useless pair.
NewKeysOutcomes(nbits) ==
    {[kind |-> "keypair",
      pub |-> KeyObj("public", id, nbits),
      priv |-> KeyObj("private", id, nbits)] : id \in KeyIds}
    \cup (IF nbits < 1 THEN {Raise("EngineError")} ELSE {})

\* The longest message a key encrypts in one block: PKCS#1 v1.5 padding
\* takes 11 bytes of the modulus.
MaxPayload(k) == (k.bits \div 8) - 11

\* key.save_pkcs1(format): the key's bytes in that format.
SavePkcs1(k, fmt) ==
    IF fmt \in {"PEM", "DER"}
    THEN KeyFile(fmt, k.role, k.id, k.bits)
    ELSE Raise("ValueError")

\* key_class.load_pkcs1(keydata, format): the key that the bytes encode, when
\* they encode a key of that class in that format.
LoadPkcs1(role, keydata, fmt) ==
    IF keydata.kind = "pkcs1" /\ keydata.format = fmt /\ keydata.role = role
    THEN KeyObj(role, keydata.id, keydata.bits)
    ELSE Raise("KeyFormatError")

\* rsa.encrypt(message, pub_key): fails on a message longer than the key's
\* payload.  A ciphertext or a key file is longer than any payload.
Encrypt(message, pub_key) ==
    IF message.kind = "data" /\ Len(message.bytes) <= MaxPayload(pub_key)
    THEN Cipher(pub_key.id, message.bytes)
    ELSE Raise("EngineError")

\* rsa.decrypt(crypto, priv_key): fails on anything that is no ciphertext
\* made with the matching public key.
Decrypt(crypto, priv_key) ==
    IF crypto.kind = "cipher" /\ crypto.id = priv_key.id
    THEN Data(crypto.bytes)
    ELSE Raise("EngineError")

\* optparse's parse_args on the options of argv: -h prints the help to
\* stdout and exits 0; a value outside an option's choices prints the usage
\* line and an error to stderr and exits 2; otherwise the options are handed
\* back with the positional arguments.
OptParse(help, choice, choices) ==
    IF help THEN "help"
    ELSE IF choice \notin choices THEN "error"
    ELSE "ok"

(***************************************************************************)
(* Python built-ins.                                                       *)
(***************************************************************************)
\* A conversion that takes what is no number for 0.
ParseIntLenient(s) ==
    CASE s = "96" -> [kind |-> "int", val |-> 96]
      [] s = "104" -> [kind |-> "int", val |-> 104]
      [] s = "-5" -> [kind |-> "int", val |-> -5]
      [] OTHER -> [kind |-> "int", val |-> 0]

\* int(s) on the strings the scenarios pass as keysize: the integer a decimal
\* literal writes, ValueError on anything else.
IntVal(n) == [kind |-> "int", val |-> n]
ParseInt(s) ==
    CASE s = "96" -> IntVal(96)
      [] s = "104" -> IntVal(104)
      [] s = "0" -> IntVal(0)
      [] s = "-5" -> IntVal(-5)
      [] OTHER -> Raise("ValueError")

\* bool(v) of an option's value: None and the empty string are false.
Truthy(v) == v # None /\ v # ""

\* template % dict on a template cut into pieces: a %(name)s piece becomes
\* the dict's value, %% becomes %.
Interpolate(template, dict) ==
    [i \in DOMAIN template |->
        IF template[i] = "%%" THEN "%"
        ELSE IF template[i] \in DOMAIN dict THEN dict[template[i]]
        ELSE template[i]]

(***************************************************************************)
(* The operation classes.  A text is a sequence of pieces, so that the     *)
(* %-interpolation of __init__ is computed and not assumed.                *)
(***************************************************************************)
\* CryptoOperation's class attributes usage, input_help and output_help.
UsageTemplate == <<"usage: ", "%%", "prog [options] ", "%(keyname)s", "_key">>
InputHelpTemplate ==
    <<"Name of the file to ", "%(operation)s",
      ". Reads from stdin if not specified.">>
OutputHelpTemplate ==
    <<"Name of the file to write the ", "%(operation_past)s",
      " file to. Written to stdout if this option is not present.">>

\* The __dict__ of EncryptOperation and of DecryptOperation, keyed by the
\* conversion that reads each attribute.
ClassDict(cmd) ==
    IF cmd = "encrypt"
    THEN ("%(keyname)s" :> "public") @@ ("%(operation)s" :> "encrypt")
         @@ ("%(operation_past)s" :> "encrypted")
         @@ ("%(operation_progressive)s" :> "encrypting")
    ELSE ("%(keyname)s" :> "private") @@ ("%(operation)s" :> "decrypt")
         @@ ("%(operation_past)s" :> "decrypted")
         @@ ("%(operation_progressive)s" :> "decrypting")

Description(cmd) ==
    IF cmd = "encrypt"
    THEN <<"Encrypts a file. The file must be shorter than the key length in order to be encrypted. For larger files, use the pyrsa-encrypt-bigfile command.">>
    ELSE <<"Decrypts a file. The original file must be shorter than the key length in order to have been encrypted. For larger files, use the pyrsa-decrypt-bigfile command.">>

\* key_class: the class whose load_pkcs1 reads the key.
KeyClass(cmd) == IF cmd = "encrypt" THEN "public" ELSE "private"

\* str.title() on operation_progressive.
Title(w) == IF w = "encrypting" THEN "Encrypting" ELSE "Decrypting"

\* __init__: the instance's usage, input_help and output_help.
Operation(cmd) ==
    [usage |-> Interpolate(UsageTemplate, ClassDict(cmd)),
     description |-> Description(cmd),
     input_help |-> Interpolate(InputHelpTemplate, ClassDict(cmd)),
     output_help |-> Interpolate(OutputHelpTemplate, ClassDict(cmd)),
     keyname |-> ClassDict(cmd)["%(keyname)s"],
     operation_progressive |-> ClassDict(cmd)["%(operation_progressive)s"]]

\* The texts parse_cli gives its OptionParser.
ParserTexts(cmd) ==
    [usage |-> <<"usage: ", "%", "prog [options] ", "public", "_key">>,
     description |-> <<"Encrypts a file. The file must be shorter than the key length in order to be encrypted. For larger files, use the pyrsa-encrypt-bigfile command.">>,
     input_help |-> <<"Name of the file to ", "encrypt",
                      ". Reads from stdin if not specified.">>,
     output_help |-> <<"Name of the file to write the ", "encrypted",
                       " file to. Written to stdout if this option is not present.">>]

\* The texts keygen gives its OptionParser.
KeygenTexts ==
    [usage |-> <<"usage: ", "%", "prog [options] keysize">>,
     description |-> <<"Generates a new RSA keypair of \"keysize\" bits.">>]

\* An option declared without its choices.
FormChoicesAny == {"PEM", "DER", "XYZ"}

\* The choices of --form and of --keyform.
FormChoices == {"PEM", "DER"}

(***************************************************************************)
(* Command lines and scenarios.  A scenario is what a shell session gives  *)
(* the scripts: the command lines it runs in turn and the files it starts  *)
(* with.                                                                   *)
(***************************************************************************)
Formats == {"PEM", "DER", "XYZ"}
KeysizeStrings == {"abc", "0", "-5", "96", "104"}

\* argv after optparse: the options' values and the positional arguments.
\* -h and a bad choice are not combined: which of the two optparse meets
\* first depends on their order in argv.
KeygenInvocations ==
    {i \in [cmd : {"keygen"},
            args : {<<>>, <<"96", "104">>} \cup {<<a>> : a \in KeysizeStrings},
            pubout : {None, "", "P", "K"},
            privout : {None, "", "P", "K"},
            form : Formats,
            help : BOOLEAN] : ~(i.help /\ i.form \notin FormChoices)}

CryptoInvocations(fs0) ==
    {i \in [cmd : {"encrypt", "decrypt"},
            args : {<<>>, <<"P", "K">>} \cup {<<a>> : a \in {"P", "K", "D"}},
            input : {None, "", "M", "C", "D"},
            output : {None, "", "M", "C", "D"},
            keyform : Formats,
            stdin : {Data(<<>>), fs0["M"], fs0["C"]},
            help : BOOLEAN] :
        /\ ~(i.help /\ i.keyform \notin FormChoices)
        /\ (Truthy(i.input) => i.stdin = Data(<<>>))}

\* The files of a session that has a key pair, a message and a ciphertext.
Ones(n) == [j \in 1..n |-> 1]
Fixtures ==
    {("P" :> KeyFile(f, "public", "k1", 96)) @@ ("K" :> KeyFile(f, "private", "k1", 96))
     @@ ("M" :> Data(Ones(n))) @@ ("C" :> Cipher("k1", <<1>>)) @@ ("D" :> Absent)
        : f \in FormChoices, n \in 0..MaxMsgLen}

\* One command line run on the fixture files.
SingleRuns ==
    {[script |-> <<i>>, fs |-> f] : i \in KeygenInvocations, f \in Fixtures}
    \cup UNION {{[script |-> <<i>>, fs |-> f] : i \in CryptoInvocations(f)}
                    : f \in Fixtures}

\* keygen, then encrypt, then decrypt over the files P, K, M, C and D.
Pipelines ==
    {[script |->
        <<[cmd |-> "keygen", args |-> <<s>>, pubout |-> "P", privout |-> "K",
           form |-> f[1], help |-> FALSE],
          [cmd |-> "encrypt", args |-> <<"P">>, input |-> "M", output |-> "C",
           keyform |-> f[2], stdin |-> Data(<<>>), help |-> FALSE],
          [cmd |-> "decrypt", args |-> <<"K">>, input |-> "C", output |-> "D",
           keyform |-> f[3], stdin |-> Data(<<>>), help |-> FALSE]>>,
      fs |-> [p \in Paths |-> IF p = "M" THEN Data(m) ELSE Absent]]
        : s \in {"96", "104"}, f \in [1..3 -> FormChoices], m \in Messages}

Scenarios == SingleRuns \cup Pipelines

(***************************************************************************)
(* State.                                                                  *)
(***************************************************************************)
VARIABLES
    script,      \* the command lines the shell has still to run
    log,         \* the runs that ended: command line, outcome, exit status
    fs0,         \* the files the session started with
    fs,          \* the files: path -> contents
    envFault,    \* whether the system failed a file operation of this session
    inv,         \* the running process: sys.argv as parsed
    pc,          \* the running process: where it is
    exitcode,    \* the running process: its exit status, once it has exited
    outcome,     \* the running process: how it ended
    stdout,      \* what the process wrote to sys.stdout
    stderr,      \* what the process wrote to sys.stderr
    handles,     \* the file objects the process holds open
    opened,      \* every open() call of the process that succeeded
    writes,      \* every write() call of the process that succeeded
    calls,       \* every call of the process into the rsa engine
    started,     \* the steps of __call__ / keygen the process began
    finished,    \* the steps of __call__ / keygen that returned
    keysize,     \* keygen's local keysize
    keypair,     \* keygen's locals (pub_key, priv_key)
    key,         \* __call__'s local key
    indata,      \* __call__'s local indata
    outdata      \* __call__'s local outdata

locals == <<keysize, keypair, key, indata, outdata>>
vars == <<script, log, fs0, fs, envFault, inv, pc, exitcode, outcome, stdout,
          stderr, handles, opened, writes, calls, started, finished, keysize, keypair,
          key, indata, outdata>>

NoProcess == [cmd |-> "none"]

Init ==
    /\ \E sc \in Scenarios : script = sc.script /\ fs = sc.fs /\ fs0 = sc.fs
    /\ log = <<>>
    /\ envFault = FALSE
    /\ inv = NoProcess
    /\ pc = "shell"
    /\ exitcode = NoneVal
    /\ outcome = None
    /\ stdout = <<>>
    /\ stderr = <<>>
    /\ handles = {}
    /\ opened = <<>>
    /\ writes = <<>>
    /\ calls = <<>>
    /\ started = <<>>
    /\ finished = <<>>
    /\ keysize = NoneVal
    /\ keypair = NoneVal
    /\ key = NoneVal
    /\ indata = NoneVal
    /\ outdata = NoneVal

(***************************************************************************)
(* Streams, exits and file objects.                                        *)
(***************************************************************************)
\* A plain `print`, which writes to sys.stdout.
StatusStreamStdout == "stdout"

\* The stream of `print >>sys.stderr, ...`.
StatusStream == "stderr"

\* What a process writes: a status line, the parser's help, the parser's
\* error, the interpreter's traceback, or payload bytes.
Status(text) == [stream |-> StatusStream, class |-> "status", body |-> text]
Help(texts) == [stream |-> "stdout", class |-> "help", body |-> texts]
ParserError(texts) == [stream |-> "stderr", class |-> "usage", body |-> texts.usage]
Traceback(e) == [stream |-> "stderr", class |-> "traceback", body |-> <<e>>]
Payload(data) == [stream |-> "stdout", class |-> "payload", body |-> data]

ToStdout(item) == item.stream = "stdout"
ToStderr(item) == item.stream = "stderr"

Emit(items) ==
    /\ stdout' = stdout \o SelectSeq(items, ToStdout)
    /\ stderr' = stderr \o SelectSeq(items, ToStderr)

\* The process goes on at `next`.
Go(next, items) ==
    /\ pc' = next
    /\ Emit(items)
    /\ UNCHANGED <<exitcode, outcome, log>>

\* The process ends with exit status `code`.
Exit(code, how, items) ==
    /\ pc' = "exited"
    /\ exitcode' = IntVal(code)
    /\ outcome' = how
    /\ Emit(items)
    /\ log' = Append(log, [inv |-> inv, outcome |-> how, exitcode |-> code])

\* raise SystemExit(1) after parser.print_help().
UsageExit(items) == Exit(1, "usage", items)

\* An exception nobody catches: the interpreter prints the traceback to
\* stderr and exits with status 1.
Uncaught(e, items) == Exit(1, e, items \o <<Traceback(e)>>)

\* A file object.  The mode is kept as the code gives it; Python 2 on POSIX
\* reads and writes the same bytes in text mode ('r', 'w') as in binary mode.
Handle(path, mode) == [path |-> path, mode |-> mode]
Exists(path) == path \in DOMAIN fs /\ fs[path] # Absent

\* An open() without a with block and without close().
WithExitLeak(hs, h) == hs

\* The end of a `with open(...) as f:` block, reached by return and by
\* exception alike: f is closed.
WithExit(hs, h) == hs \ {h}

\* open(path, 'w') and open(path, 'wb') create the file or cut it to nothing.
Truncated(path) == [fs EXCEPT ![path] = Data(<<>>)]

(***************************************************************************)
(* The shell starts the next command line as a new process.                *)
(***************************************************************************)
Entry(cmd) == IF cmd = "keygen" THEN "keygen" ELSE "parse_cli"

Exec ==
    /\ pc \in {"shell", "exited"}
    /\ script # <<>>
    /\ inv' = Head(script)
    /\ script' = Tail(script)
    /\ pc' = Entry(Head(script).cmd)
    /\ exitcode' = NoneVal
    /\ outcome' = None
    /\ stdout' = <<>>
    /\ stderr' = <<>>
    /\ handles' = {}
    /\ opened' = <<>>
    /\ writes' = <<>>
    /\ calls' = <<>>
    /\ started' = <<>>
    /\ finished' = <<>>
    /\ keysize' = NoneVal
    /\ keypair' = NoneVal
    /\ key' = NoneVal
    /\ indata' = NoneVal
    /\ outdata' = NoneVal
    /\ UNCHANGED <<log, fs0, fs, envFault>>

(***************************************************************************)
(* keygen.                                                                 *)
(***************************************************************************)
fixed == <<script, fs0, inv>>

\* A keygen that forgets --privout.
PrivateKeySinkStdoutOnly(privout) == "sys.stdout"

\* Where keygen writes the private key: the --privout file, else stdout.
PrivateKeySink(privout) == IF Truthy(privout) THEN privout ELSE "sys.stdout"

\* parser.parse_args, the check of len(cli_args) and int(cli_args[0]).
KeygenParse ==
    /\ pc = "keygen"
    /\ started' = Append(started, "parse")
    /\ LET r == OptParse(inv.help, inv.form, FormChoices)
           n == IF Len(inv.args) = 1 THEN ParseInt(inv.args[1]) ELSE NoneVal
       IN  IF r = "help"
           THEN Exit(0, "help", <<Help(KeygenTexts)>>)
                /\ UNCHANGED <<keysize, finished>>
           ELSE IF r = "error"
           THEN Exit(2, "optparse_error", <<ParserError(KeygenTexts)>>)
                /\ UNCHANGED <<keysize, finished>>
           ELSE IF Len(inv.args) # 1
           THEN UsageExit(<<Help(KeygenTexts)>>)
                /\ UNCHANGED <<keysize, finished>>
           ELSE IF Raised(n)
           THEN UsageExit(<<Help(KeygenTexts),
                            Status(<<"Not a valid number: %s", inv.args[1]>>)>>)
                /\ UNCHANGED <<keysize, finished>>
           ELSE /\ keysize' = n
                /\ finished' = Append(finished, "parse")
                /\ Go("keygen.newkeys", <<>>)
    /\ UNCHANGED <<fixed, fs, envFault, handles, opened, writes, calls,
                   keypair, key, indata, outdata>>

\* print 'Generating %i-bit key'; (pub_key, priv_key) = rsa.newkeys(keysize)
KeygenNewkeys ==
    /\ pc = "keygen.newkeys"
    /\ started' = Append(started, "newkeys")
    /\ calls' = Append(calls, [fn |-> "newkeys", nbits |-> keysize.val])
    /\ \E r \in NewKeysOutcomes(keysize.val) :
        LET line == Status(<<"Generating %i-bit key", ToString(keysize.val)>>)
        IN  IF Raised(r)
            THEN Uncaught(r.exc, <<line>>) /\ UNCHANGED <<keypair, finished>>
            ELSE /\ keypair' = r
                 /\ finished' = Append(finished, "newkeys")
                 /\ Go("keygen.pub", <<line>>)
    /\ UNCHANGED <<fixed, fs, envFault, handles, opened, writes, keysize,
                   key, indata, outdata>>

\* if cli.pubout: print, data = pub_key.save_pkcs1(...), open(cli.pubout, 'w')
KeygenPub ==
    /\ pc = "keygen.pub"
    /\ started' = Append(started, "pub")
    /\ IF ~Truthy(inv.pubout)
       THEN /\ finished' = Append(finished, "pub")
            /\ Go("keygen.priv", <<>>)
            /\ UNCHANGED <<fs, envFault, handles, opened>>
       ELSE LET line == Status(<<"Writing public key to %s", inv.pubout>>)
                data == SavePkcs1(keypair.pub, inv.form)
                h == Handle(inv.pubout, "w")
            IN  IF Raised(data)
                THEN Uncaught(data.exc, <<line>>)
                     /\ UNCHANGED <<fs, envFault, handles, opened, finished>>
                ELSE \E fault \in BOOLEAN :
                    /\ envFault' = (envFault \/ fault)
                    /\ IF fault \/ inv.pubout \notin DOMAIN fs
                       THEN Uncaught("IOError", <<line>>)
                            /\ UNCHANGED <<fs, handles, opened, finished>>
                       ELSE /\ fs' = Truncated(inv.pubout)
                            /\ handles' = handles \cup {h}
                            /\ opened' = Append(opened, h)
                            /\ Go("keygen.pub.with", <<line>>)
                            /\ UNCHANGED finished
    /\ UNCHANGED <<fixed, writes, calls, locals>>

\* outfile.write(data), and the end of the with block
KeygenPubWith ==
    /\ pc = "keygen.pub.with"
    /\ LET h == Handle(inv.pubout, "w")
           data == SavePkcs1(keypair.pub, inv.form)
       IN  /\ handles' = WithExit(handles, h)
           /\ \E fault \in BOOLEAN :
                /\ envFault' = (envFault \/ fault)
                /\ IF fault
                   THEN Uncaught("IOError", <<>>)
                        /\ UNCHANGED <<fs, writes, finished>>
                   ELSE /\ fs' = [fs EXCEPT ![inv.pubout] = data]
                        /\ writes' = Append(writes, [sink |-> inv.pubout, data |-> data])
                        /\ finished' = Append(finished, "pub")
                        /\ Go("keygen.priv", <<>>)
    /\ UNCHANGED <<fixed, opened, calls, started, locals>>

\* data = priv_key.save_pkcs1(...); if cli.privout: print, open(cli.privout, 'w')
\* else: print, sys.stdout.write(data)
KeygenPriv ==
    /\ pc = "keygen.priv"
    /\ started' = Append(started, "priv")
    /\ LET data == SavePkcs1(keypair.priv, inv.form)
           sink == PrivateKeySink(inv.privout)
           h == Handle(sink, "w")
       IN  IF Raised(data)
           THEN Uncaught(data.exc, <<>>)
                /\ UNCHANGED <<fs, envFault, handles, opened, writes, finished>>
           ELSE IF sink = "sys.stdout"
           THEN /\ writes' = Append(writes, [sink |-> "sys.stdout", data |-> data])
                /\ finished' = Append(finished, "priv")
                /\ Exit(0, "success",
                        <<Status(<<"Writing private key to stdout">>), Payload(data)>>)
                /\ UNCHANGED <<fs, envFault, handles, opened>>
           ELSE LET line == Status(<<"Writing private key to %s", sink>>)
                IN  \E fault \in BOOLEAN :
                    /\ envFault' = (envFault \/ fault)
                    /\ IF fault \/ sink \notin DOMAIN fs
                       THEN Uncaught("IOError", <<line>>)
                            /\ UNCHANGED <<fs, handles, opened>>
                       ELSE /\ fs' = Truncated(sink)
                            /\ handles' = handles \cup {h}
                            /\ opened' = Append(opened, h)
                            /\ Go("keygen.priv.with", <<line>>)
                    /\ UNCHANGED <<writes, finished>>
    /\ UNCHANGED <<fixed, calls, locals>>

\* outfile.write(data), and the end of the with block
KeygenPrivWith ==
    /\ pc = "keygen.priv.with"
    /\ LET h == Handle(inv.privout, "w")
           data == SavePkcs1(keypair.priv, inv.form)
       IN  /\ handles' = WithExit(handles, h)
           /\ \E fault \in BOOLEAN :
                /\ envFault' = (envFault \/ fault)
                /\ IF fault
                   THEN Uncaught("IOError", <<>>)
                        /\ UNCHANGED <<fs, writes, finished>>
                   ELSE /\ fs' = [fs EXCEPT ![inv.privout] = data]
                        /\ writes' = Append(writes, [sink |-> inv.privout, data |-> data])
                        /\ finished' = Append(finished, "priv")
                        /\ Exit(0, "success", <<>>)
    /\ UNCHANGED <<fixed, opened, calls, started, locals>>

Keygen ==
    \/ KeygenParse
    \/ KeygenNewkeys
    \/ KeygenPub
    \/ KeygenPubWith
    \/ KeygenPriv
    \/ KeygenPrivWith

(***************************************************************************)
(* CryptoOperation: encrypt and decrypt.                                   *)
(***************************************************************************)
\* A __call__ that writes the output before it has computed it.
CallSequenceWriteFirst ==
    <<"parse_cli", "read_key", "read_infile", "progress", "write_outfile",
      "perform_operation">>

\* The statements of __call__, in the order it runs them.
CallSequence ==
    <<"parse_cli", "read_key", "read_infile", "progress", "perform_operation",
      "write_outfile">>

\* The statement that follows `step`, "return" after the last.
NextStep(step) ==
    LET i == CHOOSE j \in DOMAIN CallSequence : CallSequence[j] = step
    IN  IF i = Len(CallSequence) THEN "return" ELSE CallSequence[i + 1]

\* `step` has returned: __call__ goes on with the next statement, and the
\* process exits with status 0 after the last.
Return(step, items) ==
    /\ finished' = Append(finished, step)
    /\ IF NextStep(step) = "return"
       THEN Exit(0, "success", items)
       ELSE Go(NextStep(step), items)

\* A check that lets more than one positional argument through.
AtLeastOneArgument(cli_args) == Len(cli_args) >= 1

\* parse_cli's check of the positional arguments.
OneArgument(cli_args) == Len(cli_args) = 1

\* A DecryptOperation that inherits the encrypting perform_operation.
PerformOperationEncryptOnly(cmd, data, k) == Encrypt(data, k)

\* perform_operation of EncryptOperation and of DecryptOperation.
PerformOperation(cmd, data, k) ==
    IF cmd = "encrypt" THEN Encrypt(data, k) ELSE Decrypt(data, k)

\* (cli, cli_args) = self.parse_cli()
ParseCli ==
    /\ pc = "parse_cli"
    /\ started' = Append(started, "parse_cli")
    /\ LET r == OptParse(inv.help, inv.keyform, FormChoices)
       IN  IF r = "help"
           THEN Exit(0, "help", <<Help(ParserTexts(inv.cmd))>>)
                /\ UNCHANGED finished
           ELSE IF r = "error"
           THEN Exit(2, "optparse_error", <<ParserError(ParserTexts(inv.cmd))>>)
                /\ UNCHANGED finished
           ELSE IF ~OneArgument(inv.args)
           THEN UsageExit(<<Help(ParserTexts(inv.cmd))>>)
                /\ UNCHANGED finished
           ELSE Return("parse_cli", <<>>)
    /\ UNCHANGED <<fixed, fs, envFault, handles, opened, writes, calls, locals>>

\* key = self.read_key(cli_args[0], cli.keyform): print, open(filename)
ReadKey ==
    /\ pc = "read_key"
    /\ started' = Append(started, "read_key")
    /\ LET filename == inv.args[1]
           line == Status(<<"Reading %s key from %s",
                            Operation(inv.cmd).keyname, filename>>)
           h == Handle(filename, "r")
       IN  \E fault \in BOOLEAN :
            /\ envFault' = (envFault \/ (fault /\ Exists(filename)))
            /\ IF fault \/ ~Exists(filename)
               THEN Uncaught("IOError", <<line>>) /\ UNCHANGED <<handles, opened>>
               ELSE /\ handles' = handles \cup {h}
                    /\ opened' = Append(opened, h)
                    /\ Go("read_key.with", <<line>>)
    /\ UNCHANGED <<fixed, fs, writes, calls, finished, locals>>

\* keydata = keyfile.read(), the end of the with block, and
\* return self.key_class.load_pkcs1(keydata, keyform)
ReadKeyWith ==
    /\ pc = "read_key.with"
    /\ LET h == Handle(inv.args[1], "r")
           k == LoadPkcs1(KeyClass(inv.cmd), fs[inv.args[1]], inv.keyform)
       IN  /\ handles' = WithExit(handles, h)
           /\ \E fault \in BOOLEAN :
                /\ envFault' = (envFault \/ fault)
                /\ IF fault
                   THEN Uncaught("IOError", <<>>) /\ UNCHANGED <<key, finished>>
                   ELSE IF Raised(k)
                   THEN Uncaught(k.exc, <<>>) /\ UNCHANGED <<key, finished>>
                   ELSE key' = k /\ Return("read_key", <<>>)
    /\ UNCHANGED <<fixed, fs, opened, writes, calls, started, keysize, keypair,
                   indata, outdata>>

\* indata = self.read_infile(cli.input): print and open(inname, 'rb'), or
\* print and sys.stdin.read()
ReadInfile ==
    /\ pc = "read_infile"
    /\ started' = Append(started, "read_infile")
    /\ IF Truthy(inv.input)
       THEN LET line == Status(<<"Reading input from %s", inv.input>>)
                h == Handle(inv.input, "rb")
            IN  \E fault \in BOOLEAN :
                /\ envFault' = (envFault \/ (fault /\ Exists(inv.input)))
                /\ IF fault \/ ~Exists(inv.input)
                   THEN Uncaught("IOError", <<line>>) /\ UNCHANGED <<handles, opened>>
                   ELSE /\ handles' = handles \cup {h}
                        /\ opened' = Append(opened, h)
                        /\ Go("read_infile.with", <<line>>)
                /\ UNCHANGED <<indata, finished>>
       ELSE /\ indata' = inv.stdin
            /\ Return("read_infile", <<Status(<<"Reading input from stdin">>)>>)
            /\ UNCHANGED <<envFault, handles, opened>>
    /\ UNCHANGED <<fixed, fs, writes, calls, keysize, keypair, key, outdata>>

\* return infile.read(), and the end of the with block
ReadInfileWith ==
    /\ pc = "read_infile.with"
    /\ handles' = WithExit(handles, Handle(inv.input, "rb"))
    /\ \E fault \in BOOLEAN :
        /\ envFault' = (envFault \/ fault)
        /\ IF fault
           THEN Uncaught("IOError", <<>>) /\ UNCHANGED <<indata, finished>>
           ELSE indata' = fs[inv.input] /\ Return("read_infile", <<>>)
    /\ UNCHANGED <<fixed, fs, opened, writes, calls, started, keysize, keypair,
                   key, outdata>>

\* print >>sys.stderr, self.operation_progressive.title()
Progress ==
    /\ pc = "progress"
    /\ started' = Append(started, "progress")
    /\ Return("progress",
              <<Status(<<Title(Operation(inv.cmd).operation_progressive)>>)>>)
    /\ UNCHANGED <<fixed, fs, envFault, handles, opened, writes, calls, locals>>

\* outdata = self.perform_operation(indata, key)
Perform ==
    /\ pc = "perform_operation"
    /\ started' = Append(started, "perform_operation")
    /\ calls' = Append(calls, [fn |-> inv.cmd, data |-> indata, key |-> key])
    /\ LET r == PerformOperation(inv.cmd, indata, key)
       IN  IF Raised(r)
           THEN Uncaught(r.exc, <<>>) /\ UNCHANGED <<outdata, finished>>
           ELSE outdata' = r /\ Return("perform_operation", <<>>)
    /\ UNCHANGED <<fixed, fs, envFault, handles, opened, writes, keysize,
                   keypair, key, indata>>

\* self.write_outfile(outdata, cli.output): print and open(outname, 'wb'), or
\* print and sys.stdout.write(outdata)
WriteOutfile ==
    /\ pc = "write_outfile"
    /\ started' = Append(started, "write_outfile")
    /\ IF Truthy(inv.output)
       THEN LET line == Status(<<"Writing output to %s", inv.output>>)
                h == Handle(inv.output, "wb")
            IN  \E fault \in BOOLEAN :
                /\ envFault' = (envFault \/ fault)
                /\ IF fault \/ inv.output \notin DOMAIN fs
                   THEN Uncaught("IOError", <<line>>)
                        /\ UNCHANGED <<fs, handles, opened>>
                   ELSE /\ fs' = Truncated(inv.output)
                        /\ handles' = handles \cup {h}
                        /\ opened' = Append(opened, h)
                        /\ Go("write_outfile.with", <<line>>)
                /\ UNCHANGED <<writes, finished>>
       ELSE /\ writes' = Append(writes, [sink |-> "sys.stdout", data |-> outdata])
            /\ Return("write_outfile",
                      <<Status(<<"Writing output to stdout">>), Payload(outdata)>>)
            /\ UNCHANGED <<fs, envFault, handles, opened>>
    /\ UNCHANGED <<fixed, calls, locals>>

\* outfile.write(outdata), and the end of the with block
WriteOutfileWith ==
    /\ pc = "write_outfile.with"
    /\ handles' = WithExit(handles, Handle(inv.output, "wb"))
    /\ \E fault \in BOOLEAN :
        /\ envFault' = (envFault \/ fault)
        /\ IF fault
           THEN Uncaught("IOError", <<>>) /\ UNCHANGED <<fs, writes, finished>>
           ELSE /\ fs' = [fs EXCEPT ![inv.output] = outdata]
                /\ writes' = Append(writes, [sink |-> inv.output, data |-> outdata])
                /\ Return("write_outfile", <<>>)
    /\ UNCHANGED <<fixed, opened, calls, started, locals>>

CryptoOperation ==
    \/ ParseCli
    \/ ReadKey
    \/ ReadKeyWith
    \/ ReadInfile
    \/ ReadInfileWith
    \/ Progress
    \/ Perform
    \/ WriteOutfile
    \/ WriteOutfileWith

(***************************************************************************)
(* The specification.                                                      *)
(***************************************************************************)
Next == Exec \/ Keygen \/ CryptoOperation

Spec == Init /\ [][Next]_vars

(***************************************************************************)
(* Properties.                                                             *)
(***************************************************************************)
Running == pc \notin {"shell"}
Exited == pc = "exited"
IsKeygen == Running /\ inv.cmd = "keygen"
IsCrypto == Running /\ inv.cmd \in {"encrypt", "decrypt"}
FormOption == IF inv.cmd = "keygen" THEN inv.form ELSE inv.keyform
OptionsAccepted == ~inv.help /\ FormOption \in {"PEM", "DER"}

Printed(stream, class) == \E i \in DOMAIN stream : stream[i].class = class
HelpPrinted == Printed(stdout, "help") \/ Printed(stderr, "help")
IsPrefixOf(s, t) == Len(s) <= Len(t) /\ s = SubSeq(t, 1, Len(s))
SinkTouched ==
    \/ writes # <<>>
    \/ Printed(stdout, "payload")
    \/ \E i \in DOMAIN opened : opened[i].mode \in {"w", "wb"}
NothingDone ==
    /\ opened = <<>>
    /\ calls = <<>>
    /\ writes = <<>>
    /\ ~Printed(stdout, "payload")
    /\ indata = NoneVal

C2_Original ==
    IsCrypto /\ Len(inv.args) # 1 =>
        /\ NothingDone
        /\ (Exited => exitcode = IntVal(1) /\ HelpPrinted)

\* C2 as amended: every encrypt or decrypt run whose options optparse accepts
\* (no -h, --keyform in PEM, DER) and whose number of positional arguments is
\* not one ends, in its first step, with the help text printed and exit
\* status 1, and nothing is opened, read, transformed or written.
C2_UsageFailure ==
    IsCrypto /\ OptionsAccepted /\ Len(inv.args) # 1 =>
        /\ NothingDone
        /\ pc \in {"parse_cli", "exited"}
        /\ (Exited => exitcode = IntVal(1) /\ outcome = "usage" /\ HelpPrinted)

C2_Witness ==
    /\ IsCrypto /\ OptionsAccepted /\ Len(inv.args) = 2
    /\ Exited /\ exitcode = IntVal(1) /\ HelpPrinted

\* C3 as stated: every keygen run whose one positional argument is no integer
\* ends with exit status 1, without a call of the generator and without a
\* key written to a file or to standard output.
C3_Original ==
    IsKeygen /\ inv.args = <<"abc">> =>
        /\ NothingDone
        /\ (Exited => exitcode = IntVal(1))

\* C3 as amended: every keygen run whose options optparse accepts (no -h,
\* --form in PEM, DER) and whose one positional argument is no integer ends,
\* in its first step, in a usage failure with exit status 1, without a call of
\* the generator and without a key written to a file or to standard output.
C3_NotAnInteger ==
    IsKeygen /\ OptionsAccepted /\ inv.args = <<"abc">> =>
        /\ NothingDone
        /\ pc \in {"keygen", "exited"}
        /\ (Exited => exitcode = IntVal(1) /\ outcome = "usage" /\ HelpPrinted)

C3_Witness ==
    /\ IsKeygen /\ OptionsAccepted /\ inv.args = <<"abc">>
    /\ Exited /\ exitcode = IntVal(1) /\ Printed(stderr, "status")

\* C4: every keygen run whose one positional argument is an integer that is
\* zero or negative ends in a usage error (help printed, exit status 1) and
\* the generator is never called with that size.
C4_PositiveKeysize ==
    IsKeygen /\ OptionsAccepted /\ Len(inv.args) = 1 /\ inv.args[1] \in {"0", "-5"} =>
        /\ calls = <<>>
        /\ (Exited => exitcode = IntVal(1) /\ outcome = "usage" /\ HelpPrinted)

WritesOf(role) == SelectSeq(writes, LAMBDA w : w.data.kind = "pkcs1" /\ w.data.role = role)
OpenedPaths == {opened[i].path : i \in DOMAIN opened}
KeygenSucceeded == IsKeygen /\ Exited /\ outcome = "success"

\* C5 as stated: a keygen run that succeeds writes the private key once, to
\* the --privout file when the option is given and to standard output
\* otherwise, and writes the public key to a file exactly when --pubout is
\* given.
C5_Original ==
    KeygenSucceeded =>
        /\ Len(WritesOf("private")) = 1
        /\ WritesOf("private")[1].sink =
              (IF inv.privout # None THEN inv.privout ELSE "sys.stdout")
        /\ (Len(WritesOf("public")) = 1 <=> inv.pubout # None)

\* C5 as amended: a keygen run that succeeds writes the serialized private
\* key once, to the --privout file when the option is given with a value that
\* is not empty and to standard output otherwise (the payload reaches standard
\* output in that case only); it writes the serialized public key, once and to
\* the --pubout file, exactly when --pubout is given with a value that is not
\* empty, and opens no other file.
C5_KeySinks ==
    KeygenSucceeded =>
        LET privGiven == inv.privout \notin {None, ""}
            pubGiven == inv.pubout \notin {None, ""}
            priv == WritesOf("private")
            pub == WritesOf("public")
        IN  /\ Len(priv) = 1
            /\ priv[1].sink = (IF privGiven THEN inv.privout ELSE "sys.stdout")
            /\ priv[1].data = KeyFile(inv.form, "private", keypair.priv.id, keysize.val)
            /\ (Printed(stdout, "payload") <=> ~privGiven)
            /\ Len(pub) = (IF pubGiven THEN 1 ELSE 0)
            /\ (pubGiven => pub[1].sink = inv.pubout
                            /\ pub[1].data = KeyFile(inv.form, "public",
                                                     keypair.pub.id, keysize.val))
            /\ Len(writes) = Len(priv) + Len(pub)
            /\ OpenedPaths = (IF privGiven THEN {inv.privout} ELSE {})
                             \cup (IF pubGiven THEN {inv.pubout} ELSE {})

C5_Witness ==
    /\ KeygenSucceeded
    /\ inv.pubout = None /\ inv.privout = None
    /\ Printed(stdout, "payload")
    /\ opened = <<>>

\* C6 as stated: in every run all text for people goes to the error stream,
\* and standard output receives payload bytes only.
C6_Original ==
    /\ \A i \in DOMAIN stdout : stdout[i].class = "payload"
    /\ \A i \in DOMAIN stderr : stderr[i].class # "payload"

\* C6 as amended: in every run the status and progress lines, the parser's
\* error and the traceback go to the error stream; files receive payload
\* bytes only; standard output receives payload bytes, or else the parser's
\* help text, which is printed only by a run that ends at once on -h or on a
\* usage error, so that a run never writes both to standard output.
C6_Streams ==
    Running =>
        /\ \A i \in DOMAIN stderr : stderr[i].class \in {"status", "usage", "traceback"}
        /\ \A i \in DOMAIN stdout : stdout[i].class \in {"payload", "help"}
        /\ ~(Printed(stdout, "payload") /\ Printed(stdout, "help"))
        /\ (Printed(stdout, "help") =>
                /\ Exited /\ outcome \in {"usage", "help"}
                /\ writes = <<>> /\ opened = <<>>)
        /\ \A i \in DOMAIN stdout :
                stdout[i].class = "payload" =>
                    stdout[i].body = (IF inv.cmd = "keygen"
                                      THEN SavePkcs1(keypair.priv, inv.form)
                                      ELSE outdata)
        /\ \A i \in DOMAIN writes :
                writes[i].data \in (IF inv.cmd = "keygen"
                                    THEN {SavePkcs1(keypair.priv, inv.form),
                                          SavePkcs1(keypair.pub, inv.form)}
                                    ELSE {outdata})

C6_Witness ==
    /\ IsCrypto /\ Exited /\ outcome = "success"
    /\ Printed(stdout, "payload")
    /\ Len(stderr) >= 4

C8_HandlesScoped ==
    /\ Cardinality(handles) <= 1
    /\ (handles # {} => pc \in {"keygen.pub.with", "keygen.priv.with", "read_key.with",
                                "read_infile.with", "write_outfile.with"})
    /\ (pc \in {"shell", "exited"} => handles = {})

\* A run whose write failed inside the with block of write_outfile.
C8_Witness ==
    /\ IsCrypto /\ Exited /\ outcome = "IOError" /\ envFault
    /\ started[Len(started)] = "write_outfile"
    /\ opened # <<>> /\ opened[Len(opened)].mode = "wb"
    /\ writes = <<>>
    /\ handles = {}

\* C9: with no failure of the system, keygen --pubout P --privout K --form f
\* (sizes 96 and 104), then encrypt P --keyform f --input M --output C, then
\* decrypt K --keyform f --input C --output D: every run succeeds and D ends
\* with the bytes M started with, for f in PEM, DER and every message no
\* longer than the key's payload.
C9_RoundTrip ==
    (/\ Len(log) + Len(script) + (IF pc \in {"shell", "exited"} THEN 0 ELSE 1) = 3
     /\ Len(log) >= 1
     /\ ~envFault
     /\ LET g == log[1].inv
        IN  /\ g.cmd = "keygen"
            /\ fs0["M"].kind = "data"
            /\ Len(fs0["M"].bytes) <= (ParseInt(g.args[1]).val \div 8) - 11
            /\ Len(log) >= 2 => log[2].inv.keyform = g.form
            /\ Len(log) >= 3 => log[3].inv.keyform = g.form)
    => /\ \A i \in DOMAIN log : log[i].outcome = "success" /\ log[i].exitcode = 0
       /\ (Len(log) = 3 => fs["D"] = fs0["M"] /\ fs["M"] = fs0["M"])

C9_Witness ==
    /\ Len(log) = 3
    /\ \A i \in DOMAIN log : log[i].outcome = "success"
    /\ log[1].inv.form = "DER" /\ log[3].inv.keyform = "DER"
    /\ Len(fs0["M"].bytes) = 2
    /\ fs["D"] = fs0["M"]

\* C10: the help text a variant's parser prints names the variant's own
\* operation and key: its usage line, description and the help of --input
\* and --output are those of the variant's instance.
C10_HelpOfVariant ==
    IsCrypto =>
        \A i \in DOMAIN stdout :
            stdout[i].class = "help" =>
                /\ stdout[i].body.usage = Operation(inv.cmd).usage
                /\ stdout[i].body.description = Operation(inv.cmd).description
                /\ stdout[i].body.input_help = Operation(inv.cmd).input_help
                /\ stdout[i].body.output_help = Operation(inv.cmd).output_help

====
